---- MODULE Spec2Model ----
(***************************************************************************)
(* A model of the directory navigation engine: the Navigator (cursor over  *)
(* current/parent directory with prefetched grandchildren), the            *)
(* DirectoryManager (listing, watching) and the DirectoryList component.   *)
(*                                                                         *)
(* JavaScript scheduling is modelled as it runs: a synchronous segment of  *)
(* code is one action; an `await` of an already settled promise puts the   *)
(* continuation on the FIFO microtask queue mq; an `await` of filesystem   *)
(* I/O puts a request in io, which completes in any order, but only when   *)
(* the microtask queue has drained.  The caller of the Navigator runs a    *)
(* short program of calls (plan); a call it does not await is followed by  *)
(* the next one in the same synchronous segment.                           *)
(***************************************************************************)
EXTENDS Integers, Sequences, FiniteSets, Bags, TLC

VARIABLES
    currentPath,            \* Navigator.currentPath
    currentDirectoryItems,  \* Navigator.currentDirectoryItems (<<>> = undefined, else a heap name)
    parentDirectoryPath,    \* value the parentDirectoryPath promise resolves to
    parentDirectoryItems,   \* value the parentDirectoryItems promise resolves to (<<>> = undefined)
    heap,                   \* the item arrays produced by listDirectory, by name
    io,                     \* filesystem requests in flight (a bag)
    mq,                     \* microtask queue
    tasks,                  \* navigation calls made on the Navigator, in call order
    lastWriter,             \* the navigation call that last wrote the cursor (0 = none)
    plan,                   \* the calls the caller has still to make
    sync,                   \* the caller's synchronous segment is still running
    dlPhase,                \* DirectoryList: "constructed", "mounted" or "unmounted"
    dlPath,                 \* DirectoryList props.path
    directoryItems,         \* DirectoryList state.directoryItems
    selectedIndex,          \* DirectoryList state.selectedIndex
    navCache,               \* DirectoryListModel: the cached navigation of each path
    watchers,               \* every FSWatcher fs.watch has created, oldest first
    fsVer,                  \* how often the content of each directory has changed
    dlIo,                   \* listDirectory calls of the DirectoryList in flight (a bag)
    dlEvents,               \* change events fs.watch has still to deliver (a bag)
    notified,               \* the last invocation of a change listener
    lastUpdate,             \* what the last componentDidUpdate for a new path did
    chosenItems,            \* DirectoryList state.chosenItems
    dlCalls,                \* the calls of the DirectoryList that went to the Directory Store
    creatingNewItem,        \* DirectoryList state.creatingNewItem
    renamingItem,           \* DirectoryList state.renamingItem
    itemClipboard,          \* DirectoryListModel.itemClipboard
    lastCommand,            \* the last storeItemInClipboard command (none at first)
    batches,                \* the batch calls made on the DirectoryManager, in call order
    pastes,                 \* the pasteFromClipboard calls, in call order
    fsSrc,                  \* the items present in the directory the DirectoryList shows
    fsDst                   \* the items copied into the destination directory

navVars == <<currentPath, currentDirectoryItems, parentDirectoryPath,
             parentDirectoryItems, heap, io, mq, tasks, lastWriter, plan, sync>>

dlVars == <<dlPhase, dlPath, directoryItems, selectedIndex, navCache, watchers,
            fsVer, dlIo, dlEvents, notified, lastUpdate, chosenItems>>

edVars == <<dlCalls, creatingNewItem, renamingItem>>

opVars == <<itemClipboard, lastCommand, batches, pastes, fsSrc, fsDst>>

vars == <<navVars, dlVars, edVars, opVars>>

----------------------------------------------------------------------------
(* Bounds *)

MaxListings == 8    \* item arrays created by listDirectory
MaxPathChanges == 2 \* changes of the path of the DirectoryList
MaxChanges == 1     \* changes made to the filesystem under the DirectoryList
MaxBatches == 1     \* batch calls made on the DirectoryManager
MaxPastes == 2      \* pasteFromClipboard calls
MaxCalls == 1       \* calls of the DirectoryList that go to the Directory Store
MaxRepeats == 1     \* batch calls repeated while the first is running
MaxChosen == 1      \* items chosen at the same time

----------------------------------------------------------------------------
(* The filesystem the Directory Store reads *)

UNDEF == "undefined"
NULL == "null"

Dirs == {"/", "/a", "/a/b"}
Locked == {"/a/k"}              \* a directory whose readdir fails
Files == {"/a/f"}
Existing == Dirs \cup Locked \cup Files
Missing == {"/zz/y"}
Paths == Existing \cup Missing

\* path.dirname
Dirname(p) ==
    CASE p = "/" -> "/"
      [] p = "/a" -> "/"
      [] p = "/a/b" -> "/a"
      [] p = "/a/k" -> "/a"
      [] p = "/a/f" -> "/a"
      [] p = "/zz/y" -> "/zz"
      [] OTHER -> "/"

\* the names readdir returns for p, joined onto p
Entries(p) == {q \in Existing : q # p /\ Dirname(q) = p}

\* lstat(...).isDirectory()
IsDirectory(p) == p \in Dirs \cup Locked

\* listDirectory resolves for p (otherwise it rejects with a DirectoryError)
ListOk(p) == p \in Dirs

\* directoryManager.exists
Exists(p) == p \in Existing

\* no item array (an undefined field)
NoItems == <<>>

\* the array listDirectory resolves to: one item per entry, childItems unset
NewListing(p) == [dir |-> p, kids |-> [c \in Entries(p) |-> NoItems]]

----------------------------------------------------------------------------
(* The caller *)

InitialPaths == {"/a", "/", "/zz/y"}
ChildTargets == {"/a", "/a/b", "/a/k", "/zz/y"}
DirectoryTargets == {"/", "/a", "/a/b", "/zz/y"}

Call(op, arg, wait) == [op |-> op, arg |-> arg, wait |-> wait]

Calls(wait) ==
    {Call("toParent", UNDEF, wait), Call("retrieveDirectoryItems", UNDEF, wait)}
        \cup {Call("toChild", c, wait) : c \in ChildTargets}
        \cup {Call("toDirectory", p, wait) : p \in DirectoryTargets}

\* one call; a toChild that is awaited and then followed by toParent or by a
\* second toChild; two calls made one after the other without awaiting the first
Plans ==
    {<<>>}
        \cup {<<c>> : c \in Calls(TRUE)}
        \cup {<<Call("toChild", c, TRUE), Call("toParent", UNDEF, TRUE)>> :
                c \in {"/a", "/a/b"}}
        \cup {<<Call("toChild", "/a", TRUE), Call("toChild", "/a/b", TRUE)>>}
        \cup {<<Call("toParent", UNDEF, FALSE), Call("toDirectory", p, TRUE)>> :
                p \in {"/a/b", "/zz/y"}}
        \cup {<<Call("toDirectory", "/a/b", FALSE), Call("toParent", UNDEF, TRUE)>>}

----------------------------------------------------------------------------
(* Navigator *)

Cursor == [cp |-> currentPath, cdi |-> currentDirectoryItems,
           pp |-> parentDirectoryPath, pdi |-> parentDirectoryItems]

NoCursor == [cp |-> UNDEF, cdi |-> NoItems, pp |-> UNDEF, pdi |-> NoItems]

Req(kind, path, task, arr) == [kind |-> kind, path |-> path, task |-> task, arr |-> arr]

Job(kind, task, pv, ov) == [kind |-> kind, task |-> task, pv |-> pv, ov |-> ov]

\* An item array is named after the listDirectory call that produced it: the
\* call of task n (0 = the constructor), or the n-th grandchild listing that
\* resolved for an item of the array arr.
Resolved(arr, c) ==
    {x \in DOMAIN heap : /\ Len(x) = Len(arr) + 1
                         /\ SubSeq(x, 1, Len(arr)) = arr
                         /\ x[Len(x)].k = "grand"
                         /\ x[Len(x)].p = c}

NameOf(r) ==
    Append(r.arr, [k |-> r.kind, p |-> r.path,
                   n |-> IF r.kind = "grand"
                         THEN Cardinality(Resolved(r.arr, r.path)) + 1
                         ELSE r.task])

\* retrieveGrandChildren(childItems): one listDirectory per directory item
GrandChildRequests(arr, dir) ==
    SetToBag({Req("grand", c, 0, arr) : c \in {e \in Entries(dir) : IsDirectory(e)}})

\* the parent listing started once the parent path is known
ParentRequests(parentPath, t) ==
    IF parentPath # NULL THEN SetToBag({Req("parent", parentPath, t, <<>>)}) ELSE EmptyBag

\* retrieveParentDirectoryPath(basePath) up to its await of exists()
ParentPathRequests(basePath, t) ==
    SetToBag({Req("exists", Dirname(basePath), t, <<>>)})

\* toChild lists the child again although its child listing had resolved
ToChildRequests_Relist(c, arr) ==
    GrandChildRequests(arr, heap[arr].dir) (+) SetToBag({Req("parent", c, 0, <<>>)})

\* what toChild issues after it has moved the cursor (line 98)
ToChildRequests(c, arr) == GrandChildRequests(arr, heap[arr].dir)

\* the paths of the listDirectory calls among the requests
ListedPaths(reqs) == {r.path : r \in {q \in BagToSet(reqs) : q.kind # "exists"}}

\* the error a call rejects with: the class of the value thrown
NoError == "none"

NewTask(c) ==
    [op |-> c.op, arg |-> c.arg, wait |-> c.wait, status |-> "running", branch |-> "",
     pre |-> Cursor, post |-> NoCursor, wrote |-> FALSE, listed |-> {}, g |-> NoItems,
     error |-> NoError]

\* bookkeeping of a call: it issued the requests reqs; it also wrote the cursor
Issued(ts, t, reqs) == [ts EXCEPT ![t].listed = @ \cup ListedPaths(reqs)]

Did(ts, t, reqs) == [Issued(ts, t, reqs) EXCEPT ![t].wrote = TRUE]

Settle(ts, t, st, cur) == [ts EXCEPT ![t].status = st, ![t].post = cur]

\* the promise of call t rejects with an error of class err
Reject(ts, t, err, cur) == [Settle(ts, t, "rejected", cur) EXCEPT ![t].error = err]

\* the Navigator as its constructor leaves it (lines 25-59): the listing of
\* the initial path and the lookup of its parent path are in flight
NavigatorConstructed ==
    /\ \E p \in InitialPaths :
        /\ currentPath = p
        /\ io = SetToBag({Req("rdi", p, 0, <<>>), Req("exists", Dirname(p), 0, <<>>)})
    /\ currentDirectoryItems = NoItems
    /\ parentDirectoryPath = UNDEF
    /\ parentDirectoryItems = NoItems
    /\ heap = <<>>
    /\ mq = <<>>
    /\ tasks = <<>>
    /\ lastWriter = 0
    /\ plan \in Plans
    /\ sync = FALSE

\* no Navigator
NavigatorAbsent ==
    /\ currentPath = UNDEF
    /\ io = EmptyBag
    /\ currentDirectoryItems = NoItems
    /\ parentDirectoryPath = UNDEF
    /\ parentDirectoryItems = NoItems
    /\ heap = <<>>
    /\ mq = <<>>
    /\ tasks = <<>>
    /\ lastWriter = 0
    /\ plan = <<>>
    /\ sync = FALSE

\* the caller makes its next call: at once after a call it did not await,
\* otherwise at any time after the call it awaited has settled
CanCall(c) ==
    /\ plan # <<>>
    /\ Head(plan) = c
    /\ sync \/ \A i \in DOMAIN tasks : tasks[i].status # "running"

Called(c) ==
    /\ plan' = Tail(plan)
    /\ sync' = (~c.wait /\ Tail(plan) # <<>>)

NextTask == Len(tasks) + 1
CanList == Cardinality(DOMAIN heap) < MaxListings
Alloc(name, p) == [x \in DOMAIN heap \cup {name} |-> IF x = name THEN NewListing(p) ELSE heap[x]]
IoReady(r) == ~sync /\ mq = <<>> /\ BagIn(r, io)
Runs(kind) == ~sync /\ mq # <<>> /\ Head(mq).kind = kind
Take(r) == io (-) SetToBag({r})

----------------------------------------------------------------------------
(* Completions of filesystem requests *)

\* retrieveDirectoryItems after its await (lines 134-138); for the constructor's
\* call the then-callback of lines 39-42 is queued
RetrieveDirectoryItemsDone(r) ==
    /\ UNCHANGED <<dlVars, edVars, opVars>>
    /\ r.kind = "rdi"
    /\ IoReady(r)
    /\ UNCHANGED <<currentPath, parentDirectoryPath, parentDirectoryItems, lastWriter,
                   plan, sync>>
    /\ IF ListOk(r.path)
       THEN /\ CanList
            /\ heap' = Alloc(NameOf(r), r.path)
            /\ currentDirectoryItems' = NameOf(r)
            /\ io' = Take(r) (+) GrandChildRequests(NameOf(r), r.path)
            /\ IF r.task = 0
               THEN /\ mq' = <<Job("ctorThen", 0, UNDEF, NameOf(r))>>
                    /\ UNCHANGED tasks
               ELSE /\ tasks' = Settle(Issued(tasks, r.task, GrandChildRequests(NameOf(r), r.path)),
                                       r.task, "resolved", Cursor')
                    /\ UNCHANGED mq
       ELSE /\ io' = Take(r)
            /\ tasks' = IF r.task = 0 THEN tasks
                        ELSE Reject(tasks, r.task, "DirectoryError", Cursor)
            /\ UNCHANGED <<currentDirectoryItems, heap, mq>>

\* the constructor's then-callback (lines 39-42)
CtorThen ==
    /\ UNCHANGED <<dlVars, edVars, opVars>>
    /\ Runs("ctorThen")
    /\ io' = io (+) GrandChildRequests(Head(mq).ov, heap[Head(mq).ov].dir)
    /\ currentDirectoryItems' = Head(mq).ov
    /\ mq' = Tail(mq)
    /\ UNCHANGED <<currentPath, parentDirectoryPath, parentDirectoryItems, heap,
                   tasks, lastWriter, plan, sync>>

\* retrieveParentDirectoryPath after exists() (lines 153-154) and the callback
\* chained on it (lines 48-50, 71-73, 118-120)
ParentPathDone(r) ==
    /\ UNCHANGED <<dlVars, edVars, opVars>>
    /\ r.kind = "exists"
    /\ IoReady(r)
    /\ LET parentPath == IF Exists(r.path) THEN r.path ELSE NULL
           reqs == ParentRequests(parentPath, r.task)
       IN /\ parentDirectoryPath' = parentPath
          /\ io' = Take(r) (+) reqs
          /\ UNCHANGED <<currentPath, currentDirectoryItems, parentDirectoryItems, heap,
                         mq, plan, sync>>
          /\ IF r.task = 0
             THEN UNCHANGED <<tasks, lastWriter>>
             ELSE /\ tasks' = Settle(Did(tasks, r.task, reqs), r.task, "resolved", Cursor')
                  /\ lastWriter' = r.task

\* the parent listing resolves (lines 51-52, 74-75, 121-122); its
\* retrieveGrandChildren waits for `await this.parentDirectoryItems`
ParentListingDone(r) ==
    /\ UNCHANGED <<dlVars, edVars, opVars>>
    /\ r.kind = "parent"
    /\ IoReady(r)
    /\ IF ListOk(r.path)
       THEN /\ CanList
            /\ heap' = Alloc(NameOf(r), r.path)
            /\ parentDirectoryItems' = NameOf(r)
            /\ mq' = <<Job("parentGC", 0, UNDEF, NameOf(r))>>
       ELSE UNCHANGED <<heap, parentDirectoryItems, mq>>
    /\ io' = Take(r)
    /\ UNCHANGED <<currentPath, currentDirectoryItems, parentDirectoryPath, tasks,
                   lastWriter, plan, sync>>

\* lines 53, 76, 123 after the await
ParentGrandChildren ==
    /\ UNCHANGED <<dlVars, edVars, opVars>>
    /\ Runs("parentGC")
    /\ io' = io (+) GrandChildRequests(Head(mq).ov, heap[Head(mq).ov].dir)
    /\ mq' = Tail(mq)
    /\ UNCHANGED <<currentPath, currentDirectoryItems, parentDirectoryPath,
                   parentDirectoryItems, heap, tasks, lastWriter, plan, sync>>

\* a failed grandchild listing is thrown on: the calls that are running
\* reject and the listings of the sibling directories are abandoned
GrandChildrenDone_Throws(r) ==
    /\ UNCHANGED <<dlVars, edVars, opVars>>
    /\ r.kind = "grand"
    /\ IoReady(r)
    /\ IF ListOk(r.path)
       THEN /\ CanList
            /\ heap' = [Alloc(NameOf(r), r.path) EXCEPT ![r.arr].kids[r.path] = NameOf(r)]
            /\ io' = Take(r)
            /\ UNCHANGED tasks
       ELSE /\ UNCHANGED heap
            /\ io' = [q \in {x \in BagToSet(io) : ~(x.kind = "grand" /\ x.arr = r.arr)}
                        |-> CopiesIn(q, io)]
            /\ tasks' = [t \in DOMAIN tasks |->
                            IF tasks[t].status = "running"
                            THEN [tasks[t] EXCEPT !.status = "rejected",
                                                  !.error = "DirectoryError"]
                            ELSE tasks[t]]
    /\ UNCHANGED <<currentPath, currentDirectoryItems, parentDirectoryPath,
                   parentDirectoryItems, mq, lastWriter, plan, sync>>

\* a grandchild listing settles (lines 144-146): the item's childItems is set,
\* or the failure is logged
GrandChildrenDone(r) ==
    /\ UNCHANGED <<dlVars, edVars, opVars>>
    /\ r.kind = "grand"
    /\ IoReady(r)
    /\ IF ListOk(r.path)
       THEN /\ CanList
            /\ heap' = [Alloc(NameOf(r), r.path) EXCEPT ![r.arr].kids[r.path] = NameOf(r)]
       ELSE UNCHANGED heap
    /\ io' = Take(r)
    /\ UNCHANGED <<currentPath, currentDirectoryItems, parentDirectoryPath,
                   parentDirectoryItems, mq, tasks, lastWriter, plan, sync>>

----------------------------------------------------------------------------
(* toParent (lines 61-79) *)

\* the synchronous start of toParent: `await this.parentDirectoryPath` (line 62)
ToParentStart(t) == Job("toParent1", t, parentDirectoryPath, NoItems)

\* toParent tests the parent path for undefined instead of null
NoParent_Undefined(pv) == pv = UNDEF

\* the test of line 62: `await this.parentDirectoryPath === null`
NoParent(pv) == pv = NULL

CallToParent(c) ==
    /\ UNCHANGED <<dlVars, edVars, opVars>>
    /\ c.op = "toParent"
    /\ CanCall(c)
    /\ Called(c)
    /\ tasks' = Append(tasks, [NewTask(c) EXCEPT !.branch = "parent"])
    /\ mq' = Append(mq, ToParentStart(NextTask))
    /\ UNCHANGED <<currentPath, currentDirectoryItems, parentDirectoryPath,
                   parentDirectoryItems, heap, io, lastWriter>>

\* lines 62-66: the null test, then `await this.parentDirectoryPath`
ToParentCheck ==
    /\ UNCHANGED <<dlVars, edVars, opVars>>
    /\ Runs("toParent1")
    /\ IF NoParent(Head(mq).pv)
       THEN /\ tasks' = Reject(tasks, Head(mq).task, "LoggedError", Cursor)
            /\ mq' = Tail(mq)
       ELSE /\ mq' = Append(Tail(mq),
                            Job("toParent2", Head(mq).task, parentDirectoryPath, NoItems))
            /\ UNCHANGED tasks
    /\ UNCHANGED <<currentPath, currentDirectoryItems, parentDirectoryPath,
                   parentDirectoryItems, heap, io, lastWriter, plan, sync>>

\* lines 66-67: currentPath is assigned, then `await this.parentDirectoryItems`
ToParentPath ==
    /\ UNCHANGED <<dlVars, edVars, opVars>>
    /\ Runs("toParent2")
    /\ currentPath' = Head(mq).pv
    /\ mq' = Append(Tail(mq), Job("toParent3", Head(mq).task, UNDEF, parentDirectoryItems))
    /\ tasks' = Did(tasks, Head(mq).task, EmptyBag)
    /\ lastWriter' = Head(mq).task
    /\ UNCHANGED <<currentDirectoryItems, parentDirectoryPath, parentDirectoryItems,
                   heap, io, plan, sync>>

\* lines 67-70: currentDirectoryItems is assigned; retrieveGrandChildren throws
\* a TypeError on undefined items, path.dirname on a path that is no string
ToParentItems ==
    /\ UNCHANGED <<dlVars, edVars, opVars>>
    /\ Runs("toParent3")
    /\ LET t == Head(mq).task
           items == Head(mq).ov
           reqs == IF items = NoItems THEN EmptyBag
                   ELSE GrandChildRequests(items, heap[items].dir) (+)
                        (IF currentPath \in Paths THEN ParentPathRequests(currentPath, t)
                         ELSE EmptyBag)
       IN /\ currentDirectoryItems' = items
          /\ io' = io (+) reqs
          /\ mq' = Tail(mq)
          /\ lastWriter' = t
          /\ UNCHANGED <<currentPath, parentDirectoryPath, parentDirectoryItems, heap,
                         plan, sync>>
          /\ tasks' = IF items = NoItems \/ currentPath \notin Paths
                      THEN Reject(Did(tasks, t, reqs), t, "TypeError", Cursor')
                      ELSE Did(tasks, t, reqs)

----------------------------------------------------------------------------
(* toChild (lines 81-99) *)

\* the synchronous start of toChild for call t (lines 82-92): the resulting
\* call record and, when it awaits childItem.childItems, the queued job
ToChildStart(task, t, c) ==
    IF currentDirectoryItems = NoItems
    THEN [task |-> [task EXCEPT !.status = "resolved", !.branch = "noop", !.post = Cursor],
          jobs |-> <<>>]
    ELSE IF c \notin DOMAIN heap[currentDirectoryItems].kids
    THEN [task |-> [task EXCEPT !.status = "rejected", !.branch = "notfound", !.post = Cursor,
                                !.error = "TypeError"],
          jobs |-> <<>>]
    ELSE IF heap[currentDirectoryItems].kids[c] = NoItems
    THEN [task |-> [task EXCEPT !.status = "rejected", !.branch = "nochild", !.post = Cursor,
                                !.error = "LoggedError"],
          jobs |-> <<>>]
    ELSE [task |-> [task EXCEPT !.branch = "child", !.g = heap[currentDirectoryItems].kids[c]],
          jobs |-> <<Job("toChild1", t, c, heap[currentDirectoryItems].kids[c])>>]

CallToChild(c) ==
    /\ UNCHANGED <<dlVars, edVars, opVars>>
    /\ c.op = "toChild"
    /\ CanCall(c)
    /\ Called(c)
    /\ LET s == ToChildStart(NewTask(c), NextTask, c.arg)
       IN /\ tasks' = Append(tasks, s.task)
          /\ mq' = mq \o s.jobs
    /\ UNCHANGED <<currentPath, currentDirectoryItems, parentDirectoryPath,
                   parentDirectoryItems, heap, io, lastWriter>>

\* lines 94-98, after `await childItem.childItems`
ToChildMove ==
    /\ UNCHANGED <<dlVars, edVars, opVars>>
    /\ Runs("toChild1")
    /\ LET t == Head(mq).task
           reqs == ToChildRequests(Head(mq).pv, Head(mq).ov)
       IN /\ parentDirectoryPath' = currentPath
          /\ currentPath' = Head(mq).pv
          /\ parentDirectoryItems' = currentDirectoryItems
          /\ currentDirectoryItems' = Head(mq).ov
          /\ io' = io (+) reqs
          /\ mq' = Tail(mq)
          /\ lastWriter' = t
          /\ UNCHANGED <<heap, plan, sync>>
          /\ tasks' = Settle(Did(tasks, t, reqs), t, "resolved", Cursor')

----------------------------------------------------------------------------
(* toDirectory (lines 101-129) *)

CallToDirectory(c) ==
    /\ UNCHANGED <<dlVars, edVars, opVars>>
    /\ c.op = "toDirectory"
    /\ CanCall(c)
    /\ Called(c)
    /\ tasks' = Append(tasks, NewTask(c))
    /\ mq' = Append(mq, Job("toDirectory1", NextTask, parentDirectoryPath, NoItems))
    /\ UNCHANGED <<currentPath, currentDirectoryItems, parentDirectoryPath,
                   parentDirectoryItems, heap, io, lastWriter>>

\* lines 102-114 after `await this.parentDirectoryPath`: dispatch to toParent,
\* to toChild, or assign currentPath and start listing the target
ToDirectoryDispatch ==
    /\ UNCHANGED <<dlVars, edVars, opVars>>
    /\ Runs("toDirectory1")
    /\ LET t == Head(mq).task
           p == tasks[t].arg
       IN IF p = Head(mq).pv
          THEN /\ mq' = Append(Tail(mq), ToParentStart(t))
               /\ tasks' = [tasks EXCEPT ![t].branch = "parent"]
               /\ UNCHANGED <<currentPath, io, lastWriter>>
          ELSE IF /\ currentDirectoryItems # NoItems
                  /\ p \in DOMAIN heap[currentDirectoryItems].kids
          THEN /\ LET s == ToChildStart(tasks[t], t, p)
                  IN /\ tasks' = [tasks EXCEPT ![t] = s.task]
                     /\ mq' = Tail(mq) \o s.jobs
               /\ UNCHANGED <<currentPath, io, lastWriter>>
          ELSE /\ currentPath' = p
               /\ io' = io (+) SetToBag({Req("jump", p, t, <<>>)})
               /\ mq' = Tail(mq)
               /\ lastWriter' = t
               /\ tasks' = [Did(tasks, t, SetToBag({Req("jump", p, t, <<>>)})) EXCEPT
                               ![t].branch = "jump"]
    /\ UNCHANGED <<currentDirectoryItems, parentDirectoryPath, parentDirectoryItems,
                   heap, plan, sync>>

\* lines 114-117 after `await listDirectory(folderPath)`
ToDirectoryListed(r) ==
    /\ UNCHANGED <<dlVars, edVars, opVars>>
    /\ r.kind = "jump"
    /\ IoReady(r)
    /\ UNCHANGED <<currentPath, parentDirectoryPath, parentDirectoryItems, mq, plan, sync>>
    /\ IF ListOk(r.path)
       THEN /\ CanList
            /\ LET reqs == GrandChildRequests(NameOf(r), r.path) (+)
                           (IF currentPath \in Paths
                            THEN ParentPathRequests(currentPath, r.task) ELSE EmptyBag)
               IN /\ heap' = Alloc(NameOf(r), r.path)
                  /\ currentDirectoryItems' = NameOf(r)
                  /\ io' = Take(r) (+) reqs
                  /\ lastWriter' = r.task
                  /\ tasks' = IF currentPath \in Paths
                              THEN Did(tasks, r.task, reqs)
                              ELSE Reject(Did(tasks, r.task, reqs), r.task, "LoggedError", Cursor')
       ELSE /\ io' = Take(r)
            /\ tasks' = [Reject(tasks, r.task, "DirectoryError", Cursor) EXCEPT
                            ![r.task].branch = "jumpfailed"]
            /\ UNCHANGED <<currentDirectoryItems, heap, lastWriter>>

----------------------------------------------------------------------------
(* retrieveDirectoryItems called from outside (lines 131-139) *)

CallRetrieveDirectoryItems(c) ==
    /\ UNCHANGED <<dlVars, edVars, opVars>>
    /\ c.op = "retrieveDirectoryItems"
    /\ CanCall(c)
    /\ Called(c)
    /\ IF currentDirectoryItems = NoItems
       THEN /\ tasks' = Append(tasks, [NewTask(c) EXCEPT !.listed = {currentPath}])
            /\ io' = io (+) SetToBag({Req("rdi", currentPath, NextTask, <<>>)})
       ELSE /\ tasks' = Append(tasks, [NewTask(c) EXCEPT
                                          !.status = "resolved", !.post = Cursor])
            /\ UNCHANGED io
    /\ UNCHANGED <<currentPath, currentDirectoryItems, parentDirectoryPath,
                   parentDirectoryItems, heap, mq, lastWriter>>

----------------------------------------------------------------------------
(* DirectoryManager: watching (lines 193-200) *)

\* startWatching: this.watcher = fs.watch(pathToWatch, listener)
StartWatching(ws, pathToWatch) == Append(ws, [path |-> pathToWatch, closed |-> 0])

\* stopWatching: this.watcher && this.watcher.close()
StopWatching(ws) == IF ws = <<>> THEN ws ELSE [ws EXCEPT ![Len(ws)].closed = @ + 1]

OpenWatchers == {w \in DOMAIN watchers : watchers[w].closed = 0}

----------------------------------------------------------------------------
(* DirectoryList *)

DlInitialPaths == {"/a"}
DlTargets == Dirs \cup Locked

\* the empty array the constructor puts in state.directoryItems
NoListing == [dir |-> UNDEF, ver |-> 0]

\* what listDirectory(p) resolves to now
ListingOf(p) == [dir |-> p, ver |-> fsVer[p]]

NoNavigation == [selectedIndex |-> 0, directoryItems |-> NoListing, cached |-> FALSE,
                 at |-> 0]

NoNotification == [watched |-> UNDEF, at |-> UNDEF]

\* what a componentDidUpdate did: the path it ran for, the navigation
\* popCachedNavigation returned and whether it was one goIn had stored
Updated(p, navigation) == [path |-> p, navigation |-> navigation]

DlReq(path, cause) == [path |-> path, cause |-> cause]

\* the number of items of a listing; a change adds or removes one file
ItemCount(l) == IF l.dir = UNDEF THEN 0 ELSE Cardinality(Entries(l.dir)) + (l.ver % 2)

\* state.creatingNewItem is false or the item type being created
NotCreating == "false"

\* the most items a listing has
MaxItems == Cardinality(Existing)

\* the constructor (lines 101-119)
DirectoryListConstructed ==
    /\ dlPhase = "constructed"
    /\ dlPath \in DlInitialPaths
    /\ directoryItems = NoListing
    /\ selectedIndex = 0
    /\ navCache = [p \in Paths |-> NoNavigation]
    /\ watchers = <<>>
    /\ fsVer = [p \in Dirs \cup Locked |-> 0]
    /\ dlIo = EmptyBag
    /\ dlEvents = EmptyBag
    /\ notified = NoNotification
    /\ lastUpdate = Updated(UNDEF, NoNavigation)
    /\ chosenItems = {}
    /\ dlCalls = <<>>
    /\ creatingNewItem = NotCreating
    /\ renamingItem = FALSE

\* componentDidMount up to its await (lines 122-140)
ComponentDidMount ==
    /\ dlPhase = "constructed"
    /\ dlPhase' = "mounted"
    /\ watchers' = StartWatching(watchers, dlPath)
    /\ dlIo' = dlIo (+) SetToBag({DlReq(dlPath, "mount")})
    /\ UNCHANGED <<dlPath, directoryItems, selectedIndex, navCache, fsVer, dlEvents, notified, lastUpdate, chosenItems>>
    /\ UNCHANGED <<navVars, opVars, edVars>>

\* componentWillUnmount (lines 146-148)
ComponentWillUnmount ==
    /\ dlPhase = "mounted"
    /\ dlPhase' = "unmounted"
    /\ watchers' = StopWatching(watchers)
    /\ UNCHANGED <<dlPath, directoryItems, selectedIndex, navCache, fsVer, dlIo, dlEvents,
                   notified, lastUpdate, chosenItems>>
    /\ UNCHANGED <<navVars, opVars, edVars>>

CanChangePath == dlPhase = "mounted" /\ Len(watchers) <= MaxPathChanges

\* an item of the array a listing resolved to: the k-th of that array; an
\* index outside the array gives undefined
Item(l, k) == [of |-> l, k |-> k]

IsItem(c) == c.k \in 0..(ItemCount(c.of) - 1)

\* chosenItems.filter(item => items.includes(item)) (lines 203-204, 215): the
\* chosen items that are elements of the array items; two arrays are taken for
\* the same when they list the same content of the same directory
RemainingChosenItems(chosen, items) == {c \in chosen : IsItem(c) /\ c.of = items}

\* the array a listDirectory call has just resolved to holds new items, so it
\* includes no item chosen before (line 215)
NoChosenItems == {}

\* componentDidUpdate lists the new path whether or not a navigation was
\* cached for it
ComponentDidUpdate_Relists(p, index, cache) ==
    /\ dlPath' = p
    /\ watchers' = StartWatching(watchers, p)
    /\ navCache' = [cache EXCEPT ![p] = NoNavigation]
    /\ lastUpdate' = Updated(p, cache[p])
    /\ dlIo' = dlIo (+) SetToBag({DlReq(p, "update")})
    /\ selectedIndex' = index
    /\ UNCHANGED <<directoryItems, chosenItems>>

\* componentDidUpdate after props.path has become p, up to its await
\* (lines 167-214), with the selectedIndex and the cache the handler that sent
\* the path up has left; fs.watch throws when p does not exist
ComponentDidUpdate(p, index, cache) ==
    /\ dlPath' = p
    /\ IF ~Exists(p)
       THEN /\ selectedIndex' = index
            /\ navCache' = cache
            /\ UNCHANGED <<watchers, directoryItems, dlIo, lastUpdate, chosenItems>>
       ELSE /\ watchers' = StartWatching(watchers, p)
            /\ navCache' = [cache EXCEPT ![p] = NoNavigation]
            /\ lastUpdate' = Updated(p, cache[p])
            /\ IF cache[p].cached
               THEN /\ directoryItems' = cache[p].directoryItems
                    /\ selectedIndex' = cache[p].selectedIndex
                    /\ chosenItems' = RemainingChosenItems(chosenItems,
                                                           cache[p].directoryItems)
                    /\ UNCHANGED dlIo
               ELSE /\ dlIo' = dlIo (+) SetToBag({DlReq(p, "update")})
                    /\ selectedIndex' = index
                    /\ UNCHANGED <<directoryItems, chosenItems>>

\* goIn (lines 376-388): the view of the path left is cached; at is how often
\* the content of that path had changed by then
GoIn(p) ==
    /\ CanChangePath
    /\ directoryItems.dir # UNDEF
    /\ p \in {e \in Entries(directoryItems.dir) : IsDirectory(e)}
    /\ p # dlPath
    /\ ComponentDidUpdate(p, 0,
            [navCache EXCEPT ![dlPath] = [selectedIndex |-> selectedIndex,
                                          directoryItems |-> directoryItems,
                                          cached |-> TRUE,
                                          at |-> fsVer[dlPath]]])
    /\ UNCHANGED <<dlPhase, fsVer, dlEvents, notified>>
    /\ UNCHANGED <<navVars, opVars, edVars>>

\* goBack (lines 363-369); at the root the path sent up is the path itself
GoBack ==
    /\ CanChangePath
    /\ IF Dirname(dlPath) = dlPath
       THEN /\ selectedIndex' = 0
            /\ UNCHANGED <<dlPath, directoryItems, navCache, watchers, dlIo, lastUpdate,
                           chosenItems>>
       ELSE ComponentDidUpdate(Dirname(dlPath), 0, navCache)
    /\ UNCHANGED <<dlPhase, fsVer, dlEvents, notified>>
    /\ UNCHANGED <<navVars, opVars, edVars>>

\* navigateToPath (lines 432-437)
NavigateToPath(p) ==
    /\ CanChangePath
    /\ p # dlPath
    /\ ComponentDidUpdate(p, selectedIndex, navCache)
    /\ UNCHANGED <<dlPhase, fsVer, dlEvents, notified>>
    /\ UNCHANGED <<navVars, opVars, edVars>>

\* move (lines 413-424)
Move(direction) ==
    /\ dlPhase = "mounted"
    /\ IF direction = "up"
       THEN selectedIndex' = IF selectedIndex > 0 THEN selectedIndex - 1 ELSE selectedIndex
       ELSE selectedIndex' = IF selectedIndex < ItemCount(directoryItems) - 1
                             THEN selectedIndex + 1 ELSE selectedIndex
    /\ selectedIndex' # selectedIndex
    /\ UNCHANGED <<dlPhase, dlPath, directoryItems, navCache, watchers, fsVer, dlIo,
                   dlEvents, notified, lastUpdate, chosenItems>>
    /\ UNCHANGED <<navVars, opVars, edVars>>

\* toggleItemChosen (lines 600-611): the selected item, undefined when the
\* index is outside the items displayed, is added to chosenItems, or the items
\* of its name are removed; reading the name of undefined throws
ToggleItemChosen ==
    /\ dlPhase = "mounted"
    /\ LET selectedItem == Item(directoryItems, selectedIndex)
       IN IF selectedItem \in chosenItems
          THEN /\ IsItem(selectedItem)
               /\ chosenItems' = {c \in chosenItems :
                                    ~(c.of.dir = selectedItem.of.dir /\ c.k = selectedItem.k)}
          ELSE /\ Cardinality(chosenItems) < MaxChosen
               /\ chosenItems' = chosenItems \cup {selectedItem}
    /\ UNCHANGED <<dlPhase, dlPath, directoryItems, selectedIndex, navCache, watchers, fsVer,
                   dlIo, dlEvents, notified, lastUpdate>>
    /\ UNCHANGED <<navVars, opVars, edVars>>

\* scrollTo (lines 518-532)
ScrollTo(scrollToDirection) ==
    /\ dlPhase = "mounted"
    /\ selectedIndex' = IF scrollToDirection = "top" THEN 0
                        ELSE ItemCount(directoryItems) - 1
    /\ selectedIndex' # selectedIndex
    /\ UNCHANGED <<dlPhase, dlPath, directoryItems, navCache, watchers, fsVer, dlIo,
                   dlEvents, notified, lastUpdate, chosenItems>>
    /\ UNCHANGED <<navVars, opVars, edVars>>

\* selectItem (lines 539-545) with the k-th of the items displayed: findIndex
\* finds it by its name
SelectItem(k) ==
    /\ dlPhase = "mounted"
    /\ k \in 0..(ItemCount(directoryItems) - 1)
    /\ selectedIndex' = k
    /\ selectedIndex' # selectedIndex
    /\ UNCHANGED <<dlPhase, dlPath, directoryItems, navCache, watchers, fsVer, dlIo,
                   dlEvents, notified, lastUpdate, chosenItems>>
    /\ UNCHANGED <<navVars, opVars, edVars>>

Changes == fsVer["/"] + fsVer["/a"] + fsVer["/a/b"]

\* the content of directory p changes: fs.watch raises an event in every
\* open watcher of p
FsChange(p) ==
    /\ dlPhase # "constructed"
    /\ Changes < MaxChanges
    /\ fsVer' = [fsVer EXCEPT ![p] = @ + 1]
    /\ dlEvents' = dlEvents (+) SetToBag({w \in OpenWatchers : watchers[w].path = p})
    /\ UNCHANGED <<dlPhase, dlPath, directoryItems, selectedIndex, navCache, watchers,
                   dlIo, notified, lastUpdate, chosenItems>>
    /\ UNCHANGED <<navVars, opVars, edVars>>

\* the change listener (lines 126-133, 187-194) up to its await; a closed
\* watcher delivers nothing
ChangeListener(w) ==
    /\ BagIn(w, dlEvents)
    /\ dlEvents' = dlEvents (-) SetToBag({w})
    /\ IF watchers[w].closed = 0
       THEN /\ dlIo' = dlIo (+) SetToBag({DlReq(dlPath, "watch")})
            /\ notified' = [watched |-> watchers[w].path, at |-> dlPath]
       ELSE UNCHANGED <<dlIo, notified>>
    /\ UNCHANGED <<dlPhase, dlPath, directoryItems, selectedIndex, navCache, watchers, fsVer, lastUpdate, chosenItems>>
    /\ UNCHANGED <<navVars, opVars, edVars>>

\* a listDirectory of the DirectoryList settles and the setState that awaited
\* it runs (lines 127-132, 142, 188-193, 216-220, 464-469, 480-485): the one of
\* componentDidUpdate sets chosenItems as well, the others directoryItems
\* alone; after the
\* first listing that follows a deletion state.itemDeleted is still set, so the
\* componentDidUpdate this setState brings clears it and lists once more
\* (lines 173-183, 212)
DirectoryListed(r) ==
    /\ BagIn(r, dlIo)
    /\ dlIo' = IF r.cause = "deleted" /\ ListOk(r.path)
               THEN (dlIo (-) SetToBag({r})) (+) SetToBag({DlReq(dlPath, "update")})
               ELSE dlIo (-) SetToBag({r})
    /\ IF ListOk(r.path) /\ dlPhase = "mounted"
       THEN /\ directoryItems' = ListingOf(r.path)
            /\ chosenItems' = IF r.cause \in {"update", "deleted"}
                              THEN NoChosenItems ELSE chosenItems
       ELSE UNCHANGED <<directoryItems, chosenItems>>
    /\ UNCHANGED <<dlPhase, dlPath, selectedIndex, navCache, watchers, fsVer, dlEvents,
                   notified, lastUpdate>>
    /\ UNCHANGED <<navVars, opVars, edVars>>

----------------------------------------------------------------------------
(* DirectoryList: the handlers that change the filesystem *)

\* a value that an if of JavaScript takes for true
Truthy(v) == v \notin {UNDEF, ""}

\* createNewItem and renameItem go to the Directory Store with one argument
\* given
BothGiven_Either(a, b) == Truthy(a) \/ Truthy(b)

\* the guards of createNewItem (line 315) and renameItem (line 505)
BothGiven(a, b) == Truthy(a) /\ Truthy(b)

ItemNames == {UNDEF, "", "f", "g"}
ItemTypes == {UNDEF, "file", "folder"}

\* a call of a handler: the Directory Store operation it awaits (none when
\* store is 0), the directory that operation changes, for a move the directory
\* the items are taken from, the arguments of a create or rename, and once it
\* has resolved the directories it changed with their new versions
DlCall(handler, op, path, src, a1, a2, st, err) ==
    [handler |-> handler, op |-> op, path |-> path, src |-> src, a1 |-> a1, a2 |-> a2,
     status |-> st, error |-> err, store |-> IF st = "running" THEN 1 ELSE 0,
     changed |-> {}]

CanCallStore == dlPhase = "mounted" /\ Len(dlCalls) < MaxCalls

\* this.nonHiddenDirectoryItems[this.state.selectedIndex] is an item
HasSelectedItem == selectedIndex >= 0 /\ selectedIndex < ItemCount(directoryItems)

\* delete (lines 326-344) and sendToTrash (lines 551-565), confirmed by the
\* user, up to their await, on the chosen items or else the selected item
\* (lines 328-329, 91-94): the name of a single item is read (lines 331, 553),
\* which throws when it is undefined; of several items the path is read inside
\* the batch call (part_002 lines 131, 144)
DeleteOrTrash(handler, op) ==
    /\ CanCallStore
    /\ dlCalls' = Append(dlCalls,
            IF chosenItems # {}
            THEN IF \A c \in chosenItems : IsItem(c)
                 THEN DlCall(handler, op, (CHOOSE c \in chosenItems : TRUE).of.dir, UNDEF,
                             UNDEF, UNDEF, "running", NoError)
                 ELSE [DlCall(handler, op, UNDEF, UNDEF, UNDEF, UNDEF, "rejected", "TypeError")
                         EXCEPT !.store = IF Cardinality(chosenItems) > 1 THEN 1 ELSE 0]
            ELSE IF HasSelectedItem
            THEN DlCall(handler, op, directoryItems.dir, UNDEF, UNDEF, UNDEF, "running", NoError)
            ELSE DlCall(handler, op, UNDEF, UNDEF, UNDEF, UNDEF, "rejected", "TypeError"))
    /\ UNCHANGED <<dlVars, creatingNewItem, renamingItem>>
    /\ UNCHANGED <<navVars, opVars>>

Delete == DeleteOrTrash("delete", "deleteItems")

SendToTrash == DeleteOrTrash("sendToTrash", "sendItemsToTrash")

\* pasteFromClipboard (lines 452-478) with items in the clipboard, up to its
\* await: the items are copied or moved into props.path; cut items had been
\* selected in the parent directory
PasteInto(action) ==
    /\ CanCallStore
    /\ action = "cut" => Dirname(dlPath) # dlPath
    /\ dlCalls' = Append(dlCalls,
            DlCall("pasteFromClipboard", IF action = "copy" THEN "copyItems" ELSE "moveItems",
                   dlPath, IF action = "cut" THEN Dirname(dlPath) ELSE UNDEF,
                   UNDEF, UNDEF, "running", NoError))
    /\ UNCHANGED <<dlVars, creatingNewItem, renamingItem>>
    /\ UNCHANGED <<navVars, opVars>>

\* inputNewItem (lines 352-354)
InputNewItem(itemTypeToCreate) ==
    /\ dlPhase = "mounted"
    /\ creatingNewItem # itemTypeToCreate
    /\ creatingNewItem' = itemTypeToCreate
    /\ UNCHANGED <<dlVars, dlCalls, renamingItem>>
    /\ UNCHANGED <<navVars, opVars>>

\* inputRenameItem (lines 358-360)
InputRenameItem ==
    /\ dlPhase = "mounted"
    /\ ~renamingItem
    /\ renamingItem' = TRUE
    /\ UNCHANGED <<dlVars, dlCalls, creatingNewItem>>
    /\ UNCHANGED <<navVars, opVars>>

\* createNewItem (lines 314-317) up to its await
CreateNewItem(itemName, itemTypeToCreate) ==
    /\ CanCallStore
    /\ dlCalls' = Append(dlCalls,
            IF BothGiven(itemName, itemTypeToCreate)
            THEN DlCall("createNewItem", "createItem", dlPath, UNDEF, itemName,
                        itemTypeToCreate, "running", NoError)
            ELSE DlCall("createNewItem", "createItem", UNDEF, UNDEF, itemName,
                        itemTypeToCreate, "resolved", NoError))
    /\ UNCHANGED <<dlVars, creatingNewItem, renamingItem>>
    /\ UNCHANGED <<navVars, opVars>>

\* renameItem (lines 504-507) up to its await
RenameItem(oldName, newName) ==
    /\ CanCallStore
    /\ dlCalls' = Append(dlCalls,
            IF BothGiven(oldName, newName)
            THEN DlCall("renameItem", "renameItem", dlPath, UNDEF, oldName, newName,
                        "running", NoError)
            ELSE DlCall("renameItem", "renameItem", UNDEF, UNDEF, oldName, newName,
                        "resolved", NoError))
    /\ UNCHANGED <<dlVars, creatingNewItem, renamingItem>>
    /\ UNCHANGED <<navVars, opVars>>

\* the directories a Directory Store operation changes when it succeeds:
\* DirectoryManager.renameItem returns at once when the names are the same
\* (part_002 line 110), a move empties the source as well
ChangedBy(c) ==
    IF c.op = "renameItem" /\ c.a1 = c.a2 THEN {}
    ELSE IF c.op = "moveItems" THEN {c.path, c.src}
    ELSE {c.path}

\* the Directory Store operation call n awaits settles, and the handler runs
\* on: delete and sendToTrash call refreshAfterDelete (lines 341, 562, 494),
\* which brings a componentDidUpdate that lists props.path (lines 173-176,
\* 212); pasteFromClipboard lists props.path (lines 464-469, 480-485);
\* createNewItem and renameItem clear their flag (lines 319, 509), and the
\* componentDidUpdate that follows lists props.path when the flag was set
\* (lines 173-175, 212).  A rejected operation rejects the handler.
StoreCallDone(n, ok) ==
    /\ n \in DOMAIN dlCalls
    /\ dlCalls[n].status = "running"
    /\ LET c == dlCalls[n]
           dirs == IF ok THEN ChangedBy(c) ELSE {}
           wasSet == IF c.handler = "createNewItem" THEN creatingNewItem # NotCreating
                     ELSE IF c.handler = "renameItem" THEN renamingItem
                     ELSE TRUE
           cause == IF c.handler \in {"delete", "sendToTrash"} THEN "deleted"
                    ELSE IF c.handler = "pasteFromClipboard" THEN "paste"
                    ELSE "update"
       IN /\ ok => c.path \in Dirs
          /\ (ok /\ c.op = "moveItems") => c.src \in Dirs
          /\ dirs # {} => Changes < MaxChanges
          /\ ~ok => ~(c.op = "renameItem" /\ c.a1 = c.a2)
          /\ fsVer' = [p \in DOMAIN fsVer |-> IF p \in dirs THEN fsVer[p] + 1 ELSE fsVer[p]]
          /\ dlEvents' = dlEvents (+)
                    SetToBag({w \in OpenWatchers : watchers[w].path \in dirs})
          /\ dlCalls' = [dlCalls EXCEPT
                    ![n].status = IF ok THEN "resolved" ELSE "rejected",
                    ![n].error = IF ok THEN NoError ELSE "DirectoryError",
                    ![n].changed = {<<p, fsVer[p] + 1>> : p \in dirs}]
          /\ dlIo' = IF ok /\ wasSet THEN dlIo (+) SetToBag({DlReq(dlPath, cause)}) ELSE dlIo
          /\ selectedIndex' = IF ok /\ cause = "deleted" THEN 0 ELSE selectedIndex
          /\ creatingNewItem' = IF ok /\ c.handler = "createNewItem"
                                THEN NotCreating ELSE creatingNewItem
          /\ renamingItem' = IF ok /\ c.handler = "renameItem" THEN FALSE ELSE renamingItem
    /\ UNCHANGED <<dlPhase, dlPath, directoryItems, navCache, watchers, notified, lastUpdate, chosenItems>>
    /\ UNCHANGED <<navVars, opVars>>

----------------------------------------------------------------------------
(* DirectoryManager: batch operations (lines 129-176, 208-269) *)

Items == {"/a/b", "/a/f", "/a/k"}
BatchOps == {"deleteItems", "sendItemsToTrash", "copyItems", "moveItems"}

\* the item sets a caller passes: this.selectedItems is never empty
Selections == {{"/a/f"}, {"/a/b", "/a/f"}, Items}

\* the item operations started although the batch has only begun: the first
\* item alone, the others waiting for it
StartedItems_First(items) == {CHOOSE i \in items : TRUE}

\* items.map(async item => ...) starts the operation of every item before
\* Promise.all is awaited (lines 130-134, 143-147, 157-161, 171-175)
StartedItems(items) == items

\* a batch call: st is the position of each item's operation, tries the number
\* of operations started for it, error the items the rejection names, late the
\* items whose operation finished after the call had settled
NewBatch(op, items, caller) ==
    [op |-> op, items |-> items, caller |-> caller, status |-> "running", error |-> {},
     late |-> {},
     st |-> [i \in Items |-> IF i \in StartedItems(items) THEN "started" ELSE "none"],
     tries |-> [i \in Items |-> IF i \in StartedItems(items) THEN 1 ELSE 0]]

\* the operation of item i of batch b is waiting for the filesystem
InFlight(b, i) == batches[b].st[i] \in {"started", "deleting"}

\* the filesystem call an item operation is waiting for can succeed only on an
\* item that is there; it can always fail
CanSucceed(i) == i \in fsSrc

\* Promise.all (lines 134, 147, 161, 175): rejects with the first rejection,
\* resolves when every item operation has resolved
PromiseAll(b, i, ok) ==
    IF b.status # "running" THEN b
    ELSE IF ~ok THEN [b EXCEPT !.status = "rejected", !.error = {i}]
    ELSE IF \A j \in b.items : b.st[j] = "done" THEN [b EXCEPT !.status = "resolved"]
    ELSE b

\* the DirectoryList operations idle: an empty clipboard, no call made
NoClipboard == [directoryItems |-> {}, clipboardAction |-> UNDEF]

OperationsIdle ==
    /\ itemClipboard = NoClipboard
    /\ lastCommand = NoClipboard
    /\ batches = <<>>
    /\ pastes = <<>>
    /\ fsSrc = Items
    /\ fsDst = {}

\* deleteItems, sendItemsToTrash, copyItems or moveItems is called (by
\* DirectoryList.delete, sendToTrash, or any other caller)
CallBatch(op, items) ==
    /\ Len(batches) < MaxBatches
    /\ batches' = Append(batches, NewBatch(op, items, 0))
    /\ UNCHANGED <<itemClipboard, lastCommand, pastes, fsSrc, fsDst>>
    /\ UNCHANGED <<navVars, dlVars, edVars>>

\* delete, sendToTrash or pasteFromClipboard is invoked again while the batch
\* call n of its previous invocation is running (index.ts lines 339, 561, 462,
\* 478): the selection and the clipboard are as they were, so the same batch
\* call is made on the same items
Reinvoke(n) ==
    /\ n \in DOMAIN batches
    /\ batches[n].status = "running"
    /\ Len(batches) < MaxBatches + MaxRepeats
    /\ batches' = Append(batches, NewBatch(batches[n].op, batches[n].items, 0))
    /\ UNCHANGED <<itemClipboard, lastCommand, pastes, fsSrc, fsDst>>
    /\ UNCHANGED <<navVars, dlVars, edVars>>

\* what the settling of batch b means for the pasteFromClipboard that awaits
\* it (lines 462-469, 478-485): it goes on to list the directory, or rejects
PasteAfterBatch(ps, b) ==
    IF b.caller = 0 \/ b.status = "running" \/ ps[b.caller].status # "running" THEN ps
    ELSE IF b.status = "resolved"
    THEN [ps EXCEPT ![b.caller].status = "listing", ![b.caller].calls = @ + 1]
    ELSE [ps EXCEPT ![b.caller].status = "rejected", ![b.caller].error = "DirectoryError",
                    ![b.caller].clipAfter = itemClipboard]

\* moveItem goes on to delete the source whatever became of the copy
MoveItemAfterCopy_Always(ok) == "deleting"

\* moveItem after its copyItem has settled (lines 229-233): the deletion of
\* the source is started when the copy has resolved; a rejected copy is caught
\* and rethrown
MoveItemAfterCopy(ok) == IF ok THEN "deleting" ELSE "failed"

\* the filesystem call of item i of batch n settles, with success or not:
\* deleteItem / sendItemToTrash (lines 242-269), copyItem (lines 208-217),
\* moveItem (lines 227-234: the copy, then the deletion of the source), and
\* the handlers that run on it
ItemDone(n, i, ok) ==
    /\ n \in DOMAIN batches
    /\ InFlight(n, i)
    /\ ok => CanSucceed(i)
    /\ LET b == batches[n]
           copies == b.op = "copyItems" \/ (b.op = "moveItems" /\ b.st[i] = "started")
           next == IF b.op = "moveItems" /\ b.st[i] = "started" THEN MoveItemAfterCopy(ok)
                   ELSE IF ok THEN "done" ELSE "failed"
           after == PromiseAll([b EXCEPT !.st[i] = next,
                                         !.late = IF b.status # "running" /\ next # "deleting"
                                                  THEN @ \cup {i} ELSE @], i, ok)
       IN /\ fsDst' = IF ok /\ copies THEN fsDst \cup {i} ELSE fsDst
          /\ fsSrc' = IF ok /\ ~copies THEN fsSrc \ {i} ELSE fsSrc
          /\ batches' = [batches EXCEPT ![n] = after]
          /\ pastes' = PasteAfterBatch(pastes, after)
    /\ UNCHANGED <<itemClipboard, lastCommand>>
    /\ UNCHANGED <<navVars, dlVars, edVars>>

----------------------------------------------------------------------------
(* DirectoryList: the clipboard (lines 452-489, 585-596) *)

ClipboardActions == {"copy", "cut"}

\* storeItemInClipboard adds the selected items to the ones already stored
ClipboardEntry_Merged(items, action) ==
    [directoryItems |-> itemClipboard.directoryItems \cup items, clipboardAction |-> action]

\* the object storeItemInClipboard builds (lines 586-589)
ClipboardEntry(items, action) == [directoryItems |-> items, clipboardAction |-> action]

\* the setter of DirectoryListModel.itemClipboard: the value replaces the
\* clipboard
SetItemClipboard(entry) == entry

\* storeItemInClipboard(action) with this.selectedItems = items
StoreItemInClipboard(action, items) ==
    /\ itemClipboard' = SetItemClipboard(ClipboardEntry(items, action))
    /\ lastCommand' = [directoryItems |-> items, clipboardAction |-> action]
    /\ itemClipboard' # itemClipboard \/ lastCommand' # lastCommand
    /\ UNCHANGED <<batches, pastes, fsSrc, fsDst>>
    /\ UNCHANGED <<navVars, dlVars, edVars>>

\* a pasteFromClipboard call: the clipboard it read, the batch it awaits, the
\* Directory Store calls it made, the error it rejected with, and the
\* clipboard at the time it settled
NewPaste(status, batch, calls, error) ==
    [action |-> itemClipboard.clipboardAction, items |-> itemClipboard.directoryItems,
     status |-> status, batch |-> batch, calls |-> calls, error |-> error,
     clipAfter |-> itemClipboard]

\* pasteFromClipboard up to its first await (lines 452-462, 478): with no
\* clipboard action neither branch is taken and the call resolves
PasteFromClipboard ==
    /\ Len(pastes) < MaxPastes
    /\ IF itemClipboard.clipboardAction \notin ClipboardActions
       THEN /\ pastes' = Append(pastes, NewPaste("resolved", 0, 0, NoError))
            /\ UNCHANGED batches
       ELSE IF itemClipboard.directoryItems = {}
       THEN /\ pastes' = Append(pastes, NewPaste("rejected", 0, 0, "LoggedError"))
            /\ UNCHANGED batches
       ELSE /\ Len(batches) < MaxBatches
            /\ pastes' = Append(pastes, NewPaste("running", Len(batches) + 1, 1, NoError))
            /\ batches' = Append(batches,
                    NewBatch(IF itemClipboard.clipboardAction = "copy"
                             THEN "copyItems" ELSE "moveItems",
                             itemClipboard.directoryItems, Len(pastes) + 1))
    /\ UNCHANGED <<itemClipboard, lastCommand, fsSrc, fsDst>>
    /\ UNCHANGED <<navVars, dlVars, edVars>>

\* the listDirectory of lines 464-469 / 480-485 resolves: setState, notify,
\* and the call resolves
PasteListed(p) ==
    /\ p \in DOMAIN pastes
    /\ pastes[p].status = "listing"
    /\ pastes' = [pastes EXCEPT ![p].status = "resolved", ![p].clipAfter = itemClipboard]
    /\ UNCHANGED <<itemClipboard, lastCommand, batches, fsSrc, fsDst>>
    /\ UNCHANGED <<navVars, dlVars, edVars>>

----------------------------------------------------------------------------

Next ==
    \/ \E r \in BagToSet(io) : RetrieveDirectoryItemsDone(r)
    \/ CtorThen
    \/ \E r \in BagToSet(io) : ParentPathDone(r)
    \/ \E r \in BagToSet(io) : ParentListingDone(r)
    \/ ParentGrandChildren
    \/ \E r \in BagToSet(io) : GrandChildrenDone(r)
    \/ \E c \in Calls(TRUE) \cup Calls(FALSE) : CallToParent(c)
    \/ ToParentCheck
    \/ ToParentPath
    \/ ToParentItems
    \/ \E c \in Calls(TRUE) \cup Calls(FALSE) : CallToChild(c)
    \/ ToChildMove
    \/ \E c \in Calls(TRUE) \cup Calls(FALSE) : CallToDirectory(c)
    \/ ToDirectoryDispatch
    \/ \E r \in BagToSet(io) : ToDirectoryListed(r)
    \/ \E c \in Calls(TRUE) \cup Calls(FALSE) : CallRetrieveDirectoryItems(c)

Init == NavigatorConstructed /\ DirectoryListConstructed /\ OperationsIdle

Spec == Init /\ [][Next]_vars

InitDL == NavigatorAbsent /\ DirectoryListConstructed /\ OperationsIdle

NextDL ==
    \/ ComponentDidMount
    \/ ComponentWillUnmount
    \/ \E p \in Dirs \cup Locked : GoIn(p)
    \/ GoBack
    \/ \E p \in DlTargets : NavigateToPath(p)
    \/ \E d \in {"up", "down"} : Move(d)
    \/ \E d \in {"top", "bottom"} : ScrollTo(d)
    \/ \E k \in 0..MaxItems : SelectItem(k)
    \/ \E p \in Dirs : FsChange(p)
    \/ \E w \in BagToSet(dlEvents) : ChangeListener(w)
    \/ \E r \in BagToSet(dlIo) : DirectoryListed(r)
    \/ Delete
    \/ \E a \in ClipboardActions : PasteInto(a)
    \/ \E n \in DOMAIN dlCalls, ok \in BOOLEAN : StoreCallDone(n, ok)

SpecDL == InitDL /\ [][NextDL]_vars

\* the DirectoryList while the items of the directory it shows are created,
\* renamed, deleted or pasted
NextEdit ==
    \/ ComponentDidMount
    \/ Delete
    \/ SendToTrash
    \/ \E a \in ClipboardActions : PasteInto(a)
    \/ \E t \in ItemTypes \ {UNDEF} : InputNewItem(t)
    \/ InputRenameItem
    \/ \E n \in ItemNames, t \in ItemTypes : CreateNewItem(n, t)
    \/ \E o, n \in ItemNames : RenameItem(o, n)
    \/ \E n \in DOMAIN dlCalls, ok \in BOOLEAN : StoreCallDone(n, ok)
    \/ \E p \in Dirs : FsChange(p)
    \/ \E w \in BagToSet(dlEvents) : ChangeListener(w)
    \/ \E r \in BagToSet(dlIo) : DirectoryListed(r)

SpecEdit == InitDL /\ [][NextEdit]_vars

\* the DirectoryList while items are chosen
NextChoose ==
    \/ ComponentDidMount
    \/ \E p \in Dirs \cup Locked : GoIn(p)
    \/ GoBack
    \/ \E d \in {"up", "down"} : Move(d)
    \/ ToggleItemChosen
    \/ \E p \in Dirs : FsChange(p)
    \/ \E w \in BagToSet(dlEvents) : ChangeListener(w)
    \/ \E r \in BagToSet(dlIo) : DirectoryListed(r)
    \/ \E a \in ClipboardActions : PasteInto(a)
    \/ \E n \in DOMAIN dlCalls, ok \in BOOLEAN : StoreCallDone(n, ok)

SpecChoose == InitDL /\ [][NextChoose]_vars

\* the DirectoryList operations on items and the DirectoryManager under them
NextOps ==
    \/ \E op \in BatchOps, items \in Selections : CallBatch(op, items)
    \/ \E n \in DOMAIN batches, i \in Items, ok \in BOOLEAN : ItemDone(n, i, ok)
    \/ \E a \in ClipboardActions, items \in Selections : StoreItemInClipboard(a, items)
    \/ PasteFromClipboard
    \/ \E p \in DOMAIN pastes : PasteListed(p)

SpecOps == InitDL /\ [][NextOps]_vars

\* the batch calls of a handler that is invoked a second time
NextRepeat ==
    \/ \E op \in BatchOps, items \in Selections : CallBatch(op, items)
    \/ \E n \in DOMAIN batches : Reinvoke(n)
    \/ \E n \in DOMAIN batches, i \in Items, ok \in BOOLEAN : ItemDone(n, i, ok)

SpecRepeat == InitDL /\ [][NextRepeat]_vars

----------------------------------------------------------------------------
(* Properties of the Navigator *)

Settled(t) == tasks[t].status # "running"

\* the paths of the items of an array
ItemPaths(arr) == IF arr = NoItems THEN {} ELSE DOMAIN heap[arr].kids

\* two arrays hold the same items
SameItems(a, b) == (a = NoItems) = (b = NoItems) /\ ItemPaths(a) = ItemPaths(b)

\* C1: whenever currentDirectoryItems is set, it is a listing of the directory
\* named by currentPath.
C1_CurrentItemsListCurrentPath ==
    currentDirectoryItems # NoItems => heap[currentDirectoryItems].dir = currentPath

\* C2: a background parent listing that resolves never stores into
\* parentDirectoryItems the listing of a path other than parentDirectoryPath.
C2_NoStaleParentWrite ==
    [][(parentDirectoryItems' # parentDirectoryItems
            /\ parentDirectoryItems' \notin DOMAIN heap)
        => heap'[parentDirectoryItems'].dir = parentDirectoryPath']_vars

\* C3: navigation calls are serialized: while a call that has begun to write
\* the cursor is still running, no other call writes the cursor.
C3_NavigationsSerialized ==
    \A t \in DOMAIN tasks :
        (tasks[t].status = "running" /\ tasks[t].wrote) => lastWriter = t

\* C4: a toDirectory whose listing of the target fails in the general-jump
\* branch leaves the four cursor fields as they were before the call.
C4_FailedJumpKeepsCursor ==
    \A t \in DOMAIN tasks :
        (tasks[t].op = "toDirectory" /\ tasks[t].branch = "jumpfailed")
            => tasks[t].status = "rejected" /\ tasks[t].post = tasks[t].pre

\* C7: toChild(c) that moved the cursor, awaited and followed by toParent(),
\* restores the path and the items held before toChild.
C7_RoundTrip ==
    \A t \in DOMAIN tasks :
        (/\ t + 1 \in DOMAIN tasks
         /\ tasks[t].op = "toChild" /\ tasks[t].branch = "child"
         /\ tasks[t].wait /\ tasks[t].status = "resolved"
         /\ tasks[t + 1].op = "toParent" /\ tasks[t + 1].status = "resolved")
            => /\ tasks[t + 1].post.cp = tasks[t].pre.cp
               /\ SameItems(tasks[t + 1].post.cdi, tasks[t].pre.cdi)

\* C8: when toChild(c) has resolved, currentPath is c and the parent path and
\* items are the current path and items held when toChild was called.
C8_ToChildSetsParent ==
    \A t \in DOMAIN tasks :
        (tasks[t].op = "toChild" /\ tasks[t].status = "resolved")
            => /\ tasks[t].post.cp = tasks[t].arg
               /\ tasks[t].post.pp = tasks[t].pre.cp
               /\ tasks[t].post.pdi = tasks[t].pre.cdi

\* C9: toChild(c) for a directory c of the current entries is not rejected
\* when the child listing of c has not resolved; it falls back to a listing.
C9_ToChildFallsBack ==
    \A t \in DOMAIN tasks :
        (/\ tasks[t].op = "toChild"
         /\ tasks[t].arg \in ItemPaths(tasks[t].pre.cdi)
         /\ IsDirectory(tasks[t].arg))
            => tasks[t].status # "rejected"

\* C10: toChild(c) for an entry c whose child listing had resolved takes the
\* new currentDirectoryItems from that list and issues no listDirectory for c.
C10_ZeroReRead ==
    \A t \in DOMAIN tasks :
        (tasks[t].op = "toChild" /\ tasks[t].g # NoItems /\ Settled(t))
            => /\ tasks[t].status = "resolved"
               /\ tasks[t].post.cdi = tasks[t].g
               /\ heap[tasks[t].g].dir = tasks[t].arg
               /\ tasks[t].arg \notin tasks[t].listed

C10_Witness ==
    \E t \in DOMAIN tasks :
        /\ tasks[t].op = "toChild" /\ tasks[t].g # NoItems /\ Settled(t)
        /\ tasks[t].listed # {}

\* C11: toParent called with a tracked parent path and tracked parent items
\* makes those items the current items and issues no listDirectory for the
\* path that becomes current.
C11_ToParentNoReRead ==
    \A t \in DOMAIN tasks :
        (/\ tasks[t].op = "toParent" /\ tasks[t].status = "resolved"
         /\ tasks[t].pre.pp \in Paths /\ tasks[t].pre.pdi # NoItems)
            => /\ tasks[t].post.cdi = tasks[t].pre.pdi
               /\ tasks[t].post.cp \notin tasks[t].listed


\* C12: toChild(p) with p not among the paths of currentDirectoryItems rejects
\* with a navigation error that names the child as not found, and writes none
\* of the four cursor fields.
C12_ToChildNotFound ==
    \A t \in DOMAIN tasks :
        (/\ tasks[t].op = "toChild" /\ Settled(t)
         /\ tasks[t].arg \notin ItemPaths(tasks[t].pre.cdi))
            => /\ tasks[t].status = "rejected"
               /\ tasks[t].error = "LoggedError"
               /\ ~tasks[t].wrote


\* C13: toParent called while the parent path is null rejects with an error
\* and writes none of the four cursor fields.
C13_ToParentNoParent ==
    \A t \in DOMAIN tasks :
        (tasks[t].op = "toParent" /\ tasks[t].pre.pp = NULL /\ Settled(t))
            => /\ tasks[t].status = "rejected"
               /\ tasks[t].error = "LoggedError"
               /\ ~tasks[t].wrote

C13_Witness ==
    \E t \in DOMAIN tasks :
        /\ tasks[t].op = "toParent" /\ tasks[t].pre.pp = NULL
        /\ tasks[t].status = "rejected" /\ tasks[t].pre.cp = "/zz/y"


\* C14: once the parent lookup has completed, the resolved parent path is
\* never the current path (the parent of a filesystem root is null), and
\* toParent called at a root with the lookup completed rejects.
C14_RootHasNoParent ==
    /\ (parentDirectoryPath # UNDEF /\ \A r \in BagToSet(io) : r.kind # "exists")
            => parentDirectoryPath # currentPath
    /\ \A t \in DOMAIN tasks :
        (/\ tasks[t].op = "toParent" /\ Settled(t)
         /\ Dirname(tasks[t].pre.cp) = tasks[t].pre.cp /\ tasks[t].pre.pp # UNDEF)
            => tasks[t].status = "rejected"

\* C15: toDirectory(p) with p equal to currentPath is a no-op: it resolves,
\* writes no cursor field and issues no listDirectory call.
C15_ToDirectoryIdempotent ==
    \A t \in DOMAIN tasks :
        (tasks[t].op = "toDirectory" /\ tasks[t].arg = tasks[t].pre.cp /\ Settled(t))
            => /\ tasks[t].status = "resolved"
               /\ ~tasks[t].wrote
               /\ tasks[t].listed = {}

\* C25: for every directory path at most one child listing is ever issued: none
\* is in flight twice, and none is in flight beside one in flight or resolved
C25_RePrimingDeduplicated ==
    \A c \in Paths :
        LET inFlight == {r \in BagToSet(io) : r.kind = "grand" /\ r.path = c}
            resolved == {x \in DOMAIN heap : x[Len(x)].k = "grand" /\ x[Len(x)].p = c}
        IN /\ \A r \in inFlight : CopiesIn(r, io) = 1
           /\ Cardinality(inFlight) + Cardinality(resolved) <= 1

\* C26: when the listing of a child directory fails during re-priming no call
\* settles or changes, the cursor and the item arrays stay as they are, and
\* every other listing in flight stays in flight
C26_GrandChildFailureSwallowed ==
    [][\A r \in BagToSet(io) :
          (r.kind = "grand" /\ ~ListOk(r.path) /\ CopiesIn(r, io') < CopiesIn(r, io)) =>
              /\ tasks' = tasks
              /\ Cursor' = Cursor
              /\ heap' = heap
              /\ mq' = mq
              /\ \A q \in BagToSet(io) : q # r => CopiesIn(q, io') = CopiesIn(q, io)]_vars

\* toChild has moved the cursor to /a and resolved, the child listing of /a/k
\* it started has failed, and that of the sibling /a/b has resolved
C26_Witness ==
    \E t \in DOMAIN tasks :
        /\ tasks[t].op = "toChild" /\ tasks[t].status = "resolved"
        /\ "/a/k" \in tasks[t].listed
        /\ currentPath = "/a"
        /\ currentDirectoryItems # NoItems
        /\ \A r \in BagToSet(io) : ~(r.kind = "grand" /\ r.arr = currentDirectoryItems)
        /\ heap[currentDirectoryItems].kids["/a/b"] # NoItems
        /\ heap[currentDirectoryItems].kids["/a/k"] = NoItems

\* C29: currentPath of the Navigator is a path in every reachable state
C29_CurrentPathDefined == currentPath \in Paths \cup {Dirname(p) : p \in Paths}

----------------------------------------------------------------------------
(* Properties of the DirectoryList and its watchers *)

\* C5: while the DirectoryList is mounted exactly one watcher is open, it
\* watches the current path, and every earlier watcher was closed exactly once.
C5_SingleWatcher ==
    dlPhase = "mounted" =>
        /\ OpenWatchers = {Len(watchers)}
        /\ watchers[Len(watchers)].path = dlPath
        /\ \A w \in 1..(Len(watchers) - 1) : watchers[w].closed = 1

\* C6: a change listener is only ever invoked for a change in the path the
\* DirectoryList shows, never for a change in a path it has left.
C6_NoNotificationForAbandonedPath == notified.watched = notified.at

C23_NoStaleNavigationRestored ==
    [][(dlPath' # dlPath /\ navCache[dlPath'].cached) =>
          \A n \in DOMAIN dlCalls : \A c \in dlCalls[n].changed :
              ~(c[1] = dlPath' /\ navCache[dlPath'].at < c[2])]_vars

\* C24: a createNewItem or renameItem call that lacks one of its two
\* arguments resolves without a Directory Store operation, without an error
\* and without a change of the component's state, then and later
C24_AbsentArgumentsNoOp ==
    [][\A n \in DOMAIN dlCalls' :
          LET c == dlCalls'[n]
          IN (c.handler \in {"createNewItem", "renameItem"}
                /\ ~(Truthy(c.a1) /\ Truthy(c.a2))) =>
                 /\ c.store = 0 /\ c.status = "resolved" /\ c.error = NoError
                 /\ c.changed = {}
                 /\ n \notin DOMAIN dlCalls =>
                        UNCHANGED <<dlVars, creatingNewItem, renamingItem>>]_vars

\* createNewItem has been called with a type and no name while the input of
\* a new item was open, and the input is still open
C24_Witness ==
    \E n \in DOMAIN dlCalls :
        /\ dlCalls[n].handler = "createNewItem"
        /\ ~Truthy(dlCalls[n].a1) /\ Truthy(dlCalls[n].a2)
        /\ dlCalls[n].status = "resolved"
        /\ creatingNewItem = dlCalls[n].a2
        /\ directoryItems.dir = dlPath

\* C28: when no listing, no change notification and no Directory Store call is
\* pending, the directoryItems shown are a listing of props.path or the cached
\* view the last change of path restored
C28_SettledViewShowsCurrentPath ==
    (/\ dlPhase = "mounted"
     /\ ListOk(dlPath)
     /\ dlIo = EmptyBag
     /\ dlEvents = EmptyBag
     /\ \A n \in DOMAIN dlCalls : dlCalls[n].status # "running") =>
        \/ directoryItems.dir = dlPath
        \/ /\ lastUpdate.path = dlPath
           /\ lastUpdate.navigation.cached
           /\ directoryItems = lastUpdate.navigation.directoryItems

\* C30: whenever items are displayed, selectedIndex is the index of one of
\* them
C30_SelectedIndexInRange ==
    (dlPhase = "mounted" /\ ItemCount(directoryItems) > 0) =>
        selectedIndex \in 0..(ItemCount(directoryItems) - 1)

\* C31: every chosen item is one of the items displayed: an item of the
\* directory displayed, at an index the array displayed has
C31_ChosenItemsDisplayed ==
    \A c \in chosenItems :
        /\ IsItem(c)
        /\ c.of.dir = directoryItems.dir
        /\ c.k \in 0..(ItemCount(directoryItems) - 1)

----------------------------------------------------------------------------
(* Properties of the clipboard and of the batch operations *)

\* C16: when a pasteFromClipboard with action cut has resolved (every item
\* moved), the clipboard holds no action and no items.
C16_CutPasteClearsClipboard ==
    \A p \in DOMAIN pastes :
        (pastes[p].action = "cut" /\ pastes[p].status = "resolved")
            => pastes[p].clipAfter = NoClipboard

\* C17: pasteFromClipboard with no clipboard action set rejects with a
\* clipboard-empty error and makes no Directory Store call.
C17_PasteEmptyFails ==
    \A p \in DOMAIN pastes :
        pastes[p].action \notin ClipboardActions
            => /\ pastes[p].status = "rejected"
               /\ pastes[p].error = "ClipboardError"
               /\ pastes[p].calls = 0

Applied(n, i) ==
    CASE batches[n].op = "copyItems" -> i \in fsDst
      [] batches[n].op = "moveItems" -> i \in fsDst /\ i \notin fsSrc
      [] OTHER -> i \notin fsSrc

\* C19: every item of a batch is attempted, once, whether or not another item
\* fails, and the items whose operation succeeded stay deleted, copied or moved.
C19_BatchBestEffort ==
    \A n \in DOMAIN batches : \A i \in batches[n].items :
        /\ batches[n].tries[i] = 1
        /\ batches[n].st[i] = "done" => Applied(n, i)

C19_Witness ==
    \E n \in DOMAIN batches : \E i, j \in batches[n].items :
        /\ batches[n].status = "rejected" /\ batches[n].error = {i}
        /\ batches[n].st[i] = "failed"
        /\ batches[n].st[j] = "done" /\ Applied(n, j) /\ j \in batches[n].late

\* C20: once every item operation of a rejected batch has finished, the error
\* reported to the caller names every item that failed.
C20_BatchErrorCollectsAll ==
    \A n \in DOMAIN batches :
        (batches[n].status = "rejected" /\ \A i \in Items : ~InFlight(n, i))
            => batches[n].error = {i \in batches[n].items : batches[n].st[i] = "failed"}

\* C21: moveItem deletes the source of an item only after its copy to the
\* destination has completed, and when the copy fails the source is left in
\* place and the call is rejected
C21_MoveDeletesAfterCopy ==
    [][\A n \in DOMAIN batches, i \in Items :
          (batches[n].op = "moveItems" /\ batches'[n].st[i] # batches[n].st[i]) =>
              /\ (i \in fsSrc /\ i \notin fsSrc') =>
                     (i \in fsDst /\ batches[n].st[i] = "deleting")
              /\ (batches[n].st[i] = "started" /\ i \notin fsDst') =>
                     /\ i \in fsSrc <=> i \in fsSrc'
                     /\ ~InFlight(n, i)'
                     /\ batches'[n].status = "rejected"]_vars

\* a move has deleted the source of one item after copying it and has left
\* the source of another item, whose copy failed, in place
C21_Witness ==
    \E n \in DOMAIN batches, i, j \in Items :
        /\ batches[n].op = "moveItems"
        /\ batches[n].st[i] = "done" /\ i \notin fsSrc /\ i \in fsDst
        /\ batches[n].st[j] = "failed" /\ j \in fsSrc /\ j \notin fsDst
        /\ batches[n].status = "rejected"

\* C27: no item has two Directory Store operations in flight at the same time
C27_MutationsSerializedPerItem ==
    \A m, n \in DOMAIN batches : \A i \in Items :
        m # n => ~(InFlight(m, i) /\ InFlight(n, i))

\* C32: once a batch call has resolved or rejected, none of the item operations
\* it started is still in flight
C32_BatchSettlesAfterItems ==
    \A n \in DOMAIN batches :
        batches[n].status # "running" => \A i \in batches[n].items : ~InFlight(n, i)

====
